---- MODULE Spec2Model ----
(***************************************************************************)
(* Model of cvm-tools (src/src/main.rs): the resource lifecycles the CLI   *)
(* drives through external commands.  One invocation of the CLI runs one   *)
(* subcommand to completion; the filesystem, the kernel's NBD device and   *)
(* the vTPM sidecar process outlive the invocation.  Every external        *)
(* command may exit zero or nonzero; what the kernel and the emulator do   *)
(* on their own timeline is a separate (environment) action.               *)
(* The subcommands are independent of one another but for the files they   *)
(* share, so each group has its own specification over the same            *)
(* variables: SpecImage (image customize), SpecTpm (tpm ...),              *)
(* SpecDownload (image download) and SpecVm (vm start, vm kill).           *)
(***************************************************************************)
EXTENDS Integers, Sequences, FiniteSets, TLC

VARIABLES
    cmd,               \* subcommand of the current (or last) invocation
    pc,                \* position inside the subcommand; "done" once main returned
    result,            \* "none" while running, then "ok" or "err"
    errAt,             \* the step whose failure main returned ("" if none)
    \* ---- image customize: OS state
    nbd,               \* /dev/nbd0 is connected to an image
    partition,         \* /dev/nbd0p1 exists
    mountDir,          \* <tmp>/mountpoint exists
    mounted,           \* the partition is mounted on <tmp>/mountpoint
    imgMasked,         \* walinuxagent is masked inside the image root
    imgCfg,            \* etc/cloud/cloud.cfg.d/90_dpkg.cfg inside the image root
    \* ---- image customize: locals of attach_nbd_device and observers
    retries,           \* the local `retries` of attach_nbd_device
    sleeps,            \* thread::sleep calls made by this invocation
    lastExists,        \* outcome of the latest Path::exists on the partition
    attachRes,         \* what attach_nbd_device returned: "none", "ok", "err"
    connectsOk,        \* successful qemu-nbd --connect of this invocation
    disconnects,       \* qemu-nbd --disconnect issued by this invocation
    appearK,           \* polling iterations elapsed when the partition appeared (-1: not yet)
    vanished,          \* the partition node disappeared again during this invocation
    \* ---- vTPM sidecar: OS state
    tpmDir,            \* /tmp/vtpm exists
    tpmMarker,         \* /tmp/vtpm/tpm2-00.permall exists
    tpmPidFile,        \* /tmp/vtpm_pid: <<>> when absent, <<pid>> when present
    tpmAlive,          \* pids of running swtpm processes
    tpmTerm,           \* running swtpm processes that were sent a termination request
    \* ---- vTPM sidecar: locals and observers
    killPid,           \* the local `pid` of kill_process (<<>> before the read)
    killsSent,         \* kill commands run by this invocation
    startedOk,         \* start_vtpm returned Ok in this invocation
    srkOk,             \* generate_srk returned Ok in this invocation
    statusOut,         \* what `tpm status` printed last
    fromProvisioned,   \* the invocation began with marker present, no pid file, no sidecar
    trail,             \* what the last non-status tpm invocations achieved
    fromRunning,       \* the invocation began with a pid file naming a running sidecar
    \* ---- image customize: observers of customize_image
    mkdirCalls,        \* fs::create_dir_all(&mountpoint) calls of this invocation
    mountCalls,        \* mount commands run by this invocation
    \* ---- image download: OS and cloud state
    destFile,          \* <suite>.img: "absent", "old", "empty", "partial" or "complete"
    rgExists,          \* the resource group cvm-tools-rg4 exists
    \* ---- image download: locals and observers
    force,             \* the parameter `force` of download_image
    dlRetries,         \* the local `retries` of azure_download_disk
    copies,            \* io::copy calls made by this invocation
    copyFails,         \* io::copy calls of this invocation that returned Err
    transport,         \* transport steps (az, HTTP) run by this invocation
    destBefore,        \* <suite>.img as the invocation found it
    dlRes,             \* what azure_download_disk returned: "none", "ok", "err"
    \* ---- vm: OS state
    vmPidFile,         \* /tmp/qemu_pid: <<>> when absent, <<pid>> when present
    vmAlive,           \* pids of running qemu processes
    vmTerm,            \* running qemu processes that were sent a termination request
    diskImage,         \* the disk image named on the command line exists
    seedImg,           \* seed.img exists
    ovmfTemplate,      \* contents of /usr/share/OVMF/OVMF_VARS_4M.ms.fd ("absent" if missing)
    ovmfScratch,       \* contents of /tmp/OVMF_VARS.ms.fd ("absent" if missing)
    \* ---- vm: locals and observers
    vmKillPid,         \* the local `pid` of kill_process called by kill_vm
    vmKillsSent,       \* kill commands run by this invocation of vm kill
    launches,          \* qemu-system-x86_64 commands run by this invocation
    pflashVars,        \* the file given as the writable pflash (unit 1) at the last launch
    handedVars,        \* contents of that file when the hypervisor was launched
    pidLeft,           \* this invocation's qemu wrote /tmp/qemu_pid and left it there
    scratchBefore      \* contents of /tmp/OVMF_VARS.ms.fd when this invocation began

osImage == <<nbd, partition, mountDir, mounted, imgMasked, imgCfg>>
locImage == <<retries, sleeps, lastExists, attachRes, connectsOk, disconnects, appearK, vanished>>
osTpm == <<tpmDir, tpmMarker, tpmPidFile, tpmAlive, tpmTerm>>
locTpm == <<killPid, killsSent, startedOk, srkOk, statusOut, fromProvisioned, trail, fromRunning>>
obsImage == <<mkdirCalls, mountCalls>>
osDl == <<destFile, rgExists>>
locDl == <<force, dlRetries, copies, copyFails, transport, destBefore, dlRes>>
osVm == <<vmPidFile, vmAlive, vmTerm, diskImage, seedImg, ovmfTemplate, ovmfScratch>>
locVm == <<vmKillPid, vmKillsSent, launches, pflashVars, handedVars, pidLeft, scratchBefore>>
\* the subsystems added to the image-customize and vTPM ones
rest == <<osDl, locDl, osVm, locVm>>
ctl == <<cmd, pc, result, errAt>>
vars == <<ctl, osImage, locImage, obsImage, osTpm, locTpm, rest>>

\* ------------------------------------------------------------------ bounds

\* process ids the OS hands out to swtpm
MaxPid == 2

Pids == 1..MaxPid

\* ------------------------------------------------------------- constants

\* attach_nbd_device: `retries < 20`
MaxRetries == 20

\* customize_cloudinit: b"datasource_list: [ NoCloud, Azure ]\n", as the line and its terminator
CfgPayload == <<"datasource_list: [ NoCloud, Azure ]", "\n">>

\* what an Azure image ships in 90_dpkg.cfg before customization
OldCfg == <<"datasource_list: [ Azure ]", "\n">>

NoFile == [exists |-> FALSE, data |-> <<>>]
File(d) == [exists |-> TRUE, data |-> d]

\* nothing printed yet
NoOutput == [state |-> "", pid |-> <<>>]

Prefixes(s) == {SubSeq(s, 1, k) : k \in 0..Len(s)}

\* ------------------------------------------------------------ control

Idle == pc = "done"

\* main returns Err from step `at`
Fail(at) == /\ pc' = "done"
            /\ result' = "err"
            /\ errAt' = at

\* main returns Ok(())
Succeed == /\ pc' = "done"
           /\ result' = "ok"
           /\ errAt' = ""

Goto(next) == /\ pc' = next
              /\ UNCHANGED <<result, errAt>>

\* a new invocation of the CLI: fresh locals, the OS state as it was left
Begin(c, first) ==
    /\ Idle
    /\ cmd' = c
    /\ pc' = first
    /\ result' = "none"
    /\ errAt' = ""
    /\ retries' = 0
    /\ sleeps' = 0
    /\ lastExists' = FALSE
    /\ attachRes' = "none"
    /\ connectsOk' = 0
    /\ disconnects' = 0
    /\ appearK' = -1
    /\ vanished' = FALSE
    /\ killPid' = <<>>
    /\ killsSent' = 0
    /\ startedOk' = FALSE
    /\ srkOk' = FALSE
    /\ fromProvisioned' = (tpmMarker /\ tpmPidFile = <<>> /\ tpmAlive = {})
    /\ fromRunning' = (tpmPidFile # <<>> /\ tpmPidFile \in {<<p>> : p \in tpmAlive \ tpmTerm})
    /\ mkdirCalls' = 0
    /\ mountCalls' = 0
    /\ force' = FALSE
    /\ dlRetries' = 0
    /\ copies' = 0
    /\ copyFails' = 0
    /\ transport' = 0
    /\ destBefore' = destFile
    /\ dlRes' = "none"
    /\ vmKillPid' = <<>>
    /\ vmKillsSent' = 0
    /\ launches' = 0
    /\ pflashVars' = "none"
    /\ handedVars' = "none"
    /\ pidLeft' = FALSE
    /\ scratchBefore' = ovmfScratch
    /\ UNCHANGED <<osImage, osTpm, osDl, osVm, statusOut, trail>>

At(c, p) == cmd = c /\ pc = p

\* ------------------------------------------------- image customize

\* main, "image customize": check_dependencies(vec!["qemu-nbd"]) then customize_image
main_image_customize ==
    /\ Begin("image customize", "deps")

image_customize_deps ==
    /\ At("image customize", "deps")
    /\ \E ok \in BOOLEAN :
          IF ok THEN Goto("modprobe") ELSE Fail("deps")
    /\ UNCHANGED <<cmd, osImage, locImage, obsImage, osTpm, locTpm, rest>>

\* customize_image: modprobe nbd
customize_image_modprobe ==
    /\ At("image customize", "modprobe")
    /\ \E ok \in BOOLEAN :
          IF ok THEN Goto("connect") ELSE Fail("modprobe")
    /\ UNCHANGED <<cmd, osImage, locImage, obsImage, osTpm, locTpm, rest>>

\* attach_nbd_device: qemu-nbd --format raw --connect=/dev/nbd0 image.
\* A device that is already connected is busy and the command fails.
attach_nbd_device_connect ==
    /\ At("image customize", "connect")
    /\ \E ok \in (IF nbd THEN {FALSE} ELSE BOOLEAN) :
          IF ok
          THEN /\ nbd' = TRUE
               /\ connectsOk' = connectsOk + 1
               /\ Goto("poll")
               /\ UNCHANGED attachRes
          ELSE /\ Fail("connect")
               /\ attachRes' = "err"
               /\ UNCHANGED <<nbd, connectsOk>>
    /\ UNCHANGED <<cmd, partition, mountDir, mounted, imgMasked, imgCfg,
                   retries, sleeps, lastExists, disconnects, appearK, vanished,
                   obsImage, osTpm, locTpm, rest>>

\* the loop condition of attach_nbd_device
PollContinueNoBound(exists, r) == ~exists

PollContinueNoExists(exists, r) == r < MaxRetries

PollContinue(exists, r) == ~exists /\ r < MaxRetries

\* attach_nbd_device: evaluate `while !Path::new(&partition).exists() && retries < 20`
attach_nbd_device_poll ==
    /\ At("image customize", "poll")
    /\ lastExists' = partition
    /\ IF PollContinue(partition, retries) THEN Goto("sleep") ELSE Goto("final")
    /\ UNCHANGED <<cmd, osImage, retries, sleeps, attachRes, connectsOk, disconnects,
                   appearK, vanished, obsImage, osTpm, locTpm, rest>>

\* attach_nbd_device: the loop body, thread::sleep(delay); retries += 1
attach_nbd_device_sleep ==
    /\ At("image customize", "sleep")
    /\ sleeps' = sleeps + 1
    /\ retries' = retries + 1
    /\ Goto("poll")
    /\ UNCHANGED <<cmd, osImage, lastExists, attachRes, connectsOk, disconnects,
                   appearK, vanished, obsImage, osTpm, locTpm, rest>>

\* what attach_nbd_device returns after the loop, from the second exists()
AttachVerdictAlwaysOk(exists) == "ok"

AttachVerdict(exists) == IF ~exists THEN "err" ELSE "ok"

\* attach_nbd_device: `if !Path::new(&partition).exists() { return Err(..) }`; Ok(())
attach_nbd_device_final ==
    /\ At("image customize", "final")
    /\ lastExists' = partition
    /\ attachRes' = AttachVerdict(partition)
    /\ IF AttachVerdict(partition) = "err"
       THEN Fail("nbd device not created")
       ELSE Goto("mkdir")
    /\ UNCHANGED <<cmd, osImage, retries, sleeps, connectsOk, disconnects,
                   appearK, vanished, obsImage, osTpm, locTpm, rest>>

\* customize_image: fs::create_dir_all(&mountpoint)
customize_image_mkdir ==
    /\ At("image customize", "mkdir")
    /\ mkdirCalls' = mkdirCalls + 1
    /\ \E ok \in BOOLEAN :
          IF ok
          THEN mountDir' = TRUE /\ Goto("mount")
          ELSE UNCHANGED mountDir /\ Fail("mkdir")
    /\ UNCHANGED <<cmd, nbd, partition, mounted, imgMasked, imgCfg, locImage, mountCalls,
                   osTpm, locTpm, rest>>

\* customize_image: mount /dev/nbd0p1 <mountpoint>; mount needs the device node
customize_image_mount ==
    /\ At("image customize", "mount")
    /\ mountCalls' = mountCalls + 1
    /\ \E ok \in (IF partition /\ mountDir THEN BOOLEAN ELSE {FALSE}) :
          IF ok
          THEN mounted' = TRUE /\ Goto("chroot")
          ELSE UNCHANGED mounted /\ Fail("mount")
    /\ UNCHANGED <<cmd, nbd, partition, mountDir, imgMasked, imgCfg, locImage, mkdirCalls,
                   osTpm, locTpm, rest>>

\* customize_rootfs: chroot <mountpoint> systemctl mask walinuxagent
customize_rootfs_mask ==
    /\ At("image customize", "chroot")
    /\ \E ok \in BOOLEAN :
          IF ok
          THEN imgMasked' = TRUE /\ Goto("cfg_create")
          ELSE UNCHANGED imgMasked /\ Fail("chroot")
    /\ UNCHANGED <<cmd, nbd, partition, mountDir, mounted, imgCfg, locImage, obsImage, osTpm, locTpm, rest>>

FileCreateNoTruncate(f) == File(f.data)

\* fs::File::create: creates the file or truncates the one that is there
FileCreate(f) == File(<<>>)

\* customize_cloudinit: fs::File::create(<mountpoint>/etc/cloud/cloud.cfg.d/90_dpkg.cfg)
customize_cloudinit_create ==
    /\ At("image customize", "cfg_create")
    /\ \E ok \in BOOLEAN :
          IF ok
          THEN imgCfg' = FileCreate(imgCfg) /\ Goto("cfg_write")
          ELSE UNCHANGED imgCfg /\ Fail("cfg_create")
    /\ UNCHANGED <<cmd, nbd, partition, mountDir, mounted, imgMasked, locImage, obsImage, osTpm, locTpm, rest>>

\* customize_cloudinit: file.write_all(payload); a failed write_all leaves a proper prefix
customize_cloudinit_write ==
    /\ At("image customize", "cfg_write")
    /\ \/ /\ imgCfg' = File(imgCfg.data \o CfgPayload)
          /\ Goto("umount")
       \/ /\ \E part \in Prefixes(CfgPayload) \ {CfgPayload} :
                imgCfg' = File(imgCfg.data \o part)
          /\ Fail("cfg_write")
    /\ UNCHANGED <<cmd, nbd, partition, mountDir, mounted, imgMasked, locImage, obsImage, osTpm, locTpm, rest>>

\* what customize_image does when customize_rootfs fails: `customize_rootfs(&mountpoint)?`
\* (modelled by the Fail(..) of the three steps above: it returns at once)

\* customize_image: umount <mountpoint>
customize_image_umount ==
    /\ At("image customize", "umount")
    /\ \E ok \in BOOLEAN :
          IF ok
          THEN mounted' = FALSE /\ Goto("rmdir")
          ELSE UNCHANGED mounted /\ Fail("umount")
    /\ UNCHANGED <<cmd, nbd, partition, mountDir, imgMasked, imgCfg, locImage, obsImage, osTpm, locTpm, rest>>

AfterRemoveDirIgnored(ok) == "disconnect"

\* the `?` on fs::remove_dir: an Err returns from customize_image at once
AfterRemoveDir(ok) == IF ok THEN "disconnect" ELSE "err"

\* customize_image: fs::remove_dir(&mountpoint)?; a mounted directory is busy
customize_image_rmdir ==
    /\ At("image customize", "rmdir")
    /\ \E ok \in (IF mountDir /\ ~mounted THEN BOOLEAN ELSE {FALSE}) :
          /\ mountDir' = (IF ok THEN FALSE ELSE mountDir)
          /\ IF AfterRemoveDir(ok) = "disconnect"
             THEN Goto("disconnect")
             ELSE Fail("rmdir")
    /\ UNCHANGED <<cmd, nbd, partition, mounted, imgMasked, imgCfg, locImage, obsImage, osTpm, locTpm, rest>>

\* customize_image: qemu-nbd --disconnect /dev/nbd0, then Ok(())
customize_image_disconnect ==
    /\ At("image customize", "disconnect")
    /\ disconnects' = disconnects + 1
    /\ \E ok \in BOOLEAN :
          IF ok
          THEN nbd' = FALSE /\ partition' = FALSE /\ Succeed
          ELSE UNCHANGED <<nbd, partition>> /\ Fail("disconnect")
    /\ UNCHANGED <<cmd, mountDir, mounted, imgMasked, imgCfg,
                   retries, sleeps, lastExists, attachRes, connectsOk, appearK, vanished,
                   obsImage, osTpm, locTpm, rest>>

\* ---- the kernel, on its own timeline

\* polling iterations that have elapsed at this point of attach_nbd_device
Elapsed == IF pc = "poll" THEN retries ELSE retries + 1

\* after the connect the kernel creates the partition node in the background
kernel_creates_partition ==
    /\ nbd /\ ~partition
    /\ partition' = TRUE
    /\ appearK' = IF cmd = "image customize" /\ pc \in {"poll", "sleep", "final"} /\ appearK = -1
                  THEN Elapsed ELSE appearK
    /\ UNCHANGED <<ctl, nbd, mountDir, mounted, imgMasked, imgCfg,
                   retries, sleeps, lastExists, attachRes, connectsOk, disconnects, vanished,
                   obsImage, osTpm, locTpm, rest>>

\* the node can go away again (partition table re-read) while nothing is mounted
kernel_removes_partition ==
    /\ nbd /\ partition /\ ~mounted
    /\ cmd = "image customize" /\ pc \in {"poll", "sleep", "final"}
    /\ partition' = FALSE
    /\ vanished' = TRUE
    /\ UNCHANGED <<ctl, nbd, mountDir, mounted, imgMasked, imgCfg,
                   retries, sleeps, lastExists, attachRes, connectsOk, disconnects, appearK,
                   obsImage, osTpm, locTpm, rest>>

\* no download made or under way
DlLocalsInit ==
    /\ force = FALSE /\ dlRetries = 0 /\ copies = 0 /\ copyFails = 0 /\ transport = 0
    /\ destBefore = "absent" /\ dlRes = "none"

DlQuiet ==
    /\ destFile = "absent" /\ rgExists = FALSE
    /\ DlLocalsInit

\* the locals and observers of the vm subcommands before any invocation
VmLocalsInit ==
    /\ vmKillPid = <<>> /\ vmKillsSent = 0 /\ launches = 0
    /\ pflashVars = "none" /\ handedVars = "none" /\ pidLeft = FALSE
    /\ scratchBefore = "absent"

\* no VM on the host, the firmware package installed
VmQuiet ==
    /\ vmPidFile = <<>> /\ vmAlive = {} /\ vmTerm = {}
    /\ diskImage = TRUE /\ seedImg = FALSE
    /\ ovmfTemplate = "template" /\ ovmfScratch = "absent"
    /\ VmLocalsInit

\* the locals and observers of the tpm subcommands before any invocation
TpmLocalsInit ==
    /\ killPid = <<>> /\ killsSent = 0 /\ startedOk = FALSE /\ srkOk = FALSE
    /\ statusOut = NoOutput /\ fromProvisioned = FALSE /\ trail = "none"
    /\ fromRunning = FALSE

\* no vTPM on the host
TpmQuiet ==
    /\ tpmDir = FALSE /\ tpmMarker = FALSE /\ tpmPidFile = <<>>
    /\ tpmAlive = {} /\ tpmTerm = {}
    /\ TpmLocalsInit

\* nothing attached or mounted, attach_nbd_device not yet run
ImageQuiet ==
    /\ nbd = FALSE /\ partition = FALSE /\ mountDir = FALSE /\ mounted = FALSE
    /\ retries = 0 /\ sleeps = 0 /\ lastExists = FALSE /\ attachRes = "none"
    /\ connectsOk = 0 /\ disconnects = 0 /\ appearK = -1 /\ vanished = FALSE
    /\ mkdirCalls = 0 /\ mountCalls = 0

CtlInit == cmd = "none" /\ pc = "done" /\ result = "none" /\ errAt = ""

\* a host with nothing attached; the image is untouched, with or without a shipped 90_dpkg.cfg
InitImage ==
    /\ CtlInit
    /\ ImageQuiet
    /\ imgMasked = FALSE
    /\ imgCfg \in {NoFile, File(OldCfg)}
    /\ TpmQuiet
    /\ DlQuiet
    /\ VmQuiet

NextImage ==
    \/ main_image_customize
    \/ image_customize_deps
    \/ customize_image_modprobe
    \/ attach_nbd_device_connect
    \/ attach_nbd_device_poll
    \/ attach_nbd_device_sleep
    \/ attach_nbd_device_final
    \/ customize_image_mkdir
    \/ customize_image_mount
    \/ customize_rootfs_mask
    \/ customize_cloudinit_create
    \/ customize_cloudinit_write
    \/ customize_image_umount
    \/ customize_image_rmdir
    \/ customize_image_disconnect
    \/ kernel_creates_partition
    \/ kernel_removes_partition

SpecImage == InitImage /\ [][NextImage]_vars

\* attach_nbd_device runs on one thread that nothing suspends: each evaluation of the
\* loop condition, each thread::sleep and the check after the loop completes
AttachProgress ==
    /\ WF_vars(attach_nbd_device_poll)
    /\ WF_vars(attach_nbd_device_sleep)
    /\ WF_vars(attach_nbd_device_final)

FairSpecImage == InitImage /\ [][NextImage]_vars /\ AttachProgress

\* ------------------------------------------------------- vTPM sidecar

\* what the last tpm invocations (status aside) achieved, for the end-to-end scenarios:
\* "start_ok": tpm start returned Ok from a provisioned, stopped sidecar;
\* "start_kill_ok": then tpm kill returned Ok; "setup_ok": tpm setup returned Ok;
\* "destroy_ok": tpm destroy returned Ok from a provisioned, stopped sidecar;
\* "destroy_running": tpm destroy returned Ok from a running sidecar
TrailAfter(c, ok) ==
    IF c = "tpm start" /\ ok /\ fromProvisioned THEN "start_ok"
    ELSE IF c = "tpm kill" /\ ok /\ trail = "start_ok" THEN "start_kill_ok"
    ELSE IF c = "tpm setup" /\ ok THEN "setup_ok"
    ELSE IF c = "tpm destroy" /\ ok /\ fromProvisioned THEN "destroy_ok"
    ELSE IF c = "tpm destroy" /\ ok /\ fromRunning THEN "destroy_running"
    ELSE "none"

\* main returns from a tpm subcommand
Finish(ok, at) ==
    /\ IF ok THEN Succeed ELSE Fail(at)
    /\ trail' = TrailAfter(cmd, ok)

\* main, "tpm start": check_dependencies(vec!["swtpm"]); start_vtpm(.., false)
main_tpm_start ==
    /\ Begin("tpm start", "deps")

\* main, "tpm setup": check_dependencies(vec!["swtpm", "tpm2"]); start_vtpm(.., true);
\* generate_srk; kill_process
main_tpm_setup ==
    /\ Begin("tpm setup", "deps")

\* main, "tpm kill": kill_process(&tpm_pid_file)?
main_tpm_kill ==
    /\ Begin("tpm kill", "kill_read")

\* main, "tpm destroy": let _ = kill_process(..); destroy_vtpm(..)?
main_tpm_destroy ==
    /\ Begin("tpm destroy", "kill_read")

\* main, "tpm status": println!(status_vtpm(..))
main_tpm_status ==
    /\ Begin("tpm status", "print")

\* check_dependencies, for tpm start and tpm setup
tpm_deps ==
    /\ cmd \in {"tpm start", "tpm setup"} /\ pc = "deps"
    /\ \E ok \in BOOLEAN :
          IF ok
          THEN Goto("start_mkdir") /\ UNCHANGED trail
          ELSE Finish(FALSE, "deps")
    /\ UNCHANGED <<cmd, osImage, locImage, obsImage, rest, osTpm,
                   killPid, killsSent, startedOk, srkOk, statusOut, fromProvisioned, fromRunning>>

\* start_vtpm: fs::create_dir_all(state_directory)?
start_vtpm_mkdir ==
    /\ cmd \in {"tpm start", "tpm setup"} /\ pc = "start_mkdir"
    /\ \E ok \in BOOLEAN :
          IF ok
          THEN tpmDir' = TRUE /\ Goto("start_swtpm") /\ UNCHANGED trail
          ELSE UNCHANGED tpmDir /\ Finish(FALSE, "start_mkdir")
    /\ UNCHANGED <<cmd, osImage, locImage, obsImage, rest, tpmMarker, tpmPidFile, tpmAlive, tpmTerm,
                   killPid, killsSent, startedOk, srkOk, statusOut, fromProvisioned, fromRunning>>

\* where main goes once start_vtpm returned Ok
AfterStart ==
    IF cmd = "tpm start"
    THEN Finish(TRUE, "")
    ELSE Goto("createprimary") /\ UNCHANGED trail

\* start_vtpm: swtpm socket --tpm2 --pid file=.. --tpmstate dir=.. -d.  Exit 0 is the
\* parent's after the fork: the daemon runs as a new pid, and it has written its pid
\* file and its state file by then, or not yet, or never.
start_vtpm_swtpm ==
    /\ cmd \in {"tpm start", "tpm setup"} /\ pc = "start_swtpm"
    /\ \/ /\ Finish(FALSE, "start_swtpm")
          /\ UNCHANGED <<osTpm, startedOk>>
       \/ \E p \in Pids \ tpmAlive, wrotePid \in BOOLEAN, wroteState \in BOOLEAN :
             /\ tpmAlive' = tpmAlive \cup {p}
             /\ tpmPidFile' = IF wrotePid THEN <<p>> ELSE tpmPidFile
             /\ tpmMarker' = (tpmMarker \/ (wroteState /\ tpmDir))
             /\ startedOk' = TRUE
             /\ AfterStart
             /\ UNCHANGED <<tpmDir, tpmTerm>>
    /\ UNCHANGED <<cmd, osImage, locImage, obsImage, rest,
                   killPid, killsSent, srkOk, statusOut, fromProvisioned, fromRunning>>

\* generate_srk: tpm2_createprimary -T swtpm:path=<socket> -c srk.ctx
generate_srk_createprimary ==
    /\ At("tpm setup", "createprimary")
    /\ \E ok \in (IF tpmAlive \ tpmTerm # {} THEN BOOLEAN ELSE {FALSE}) :
          IF ok
          THEN Goto("readpublic") /\ UNCHANGED trail
          ELSE Finish(FALSE, "createprimary")
    /\ UNCHANGED <<cmd, osImage, locImage, obsImage, rest, osTpm,
                   killPid, killsSent, startedOk, srkOk, statusOut, fromProvisioned, fromRunning>>

\* generate_srk: tpm2_readpublic -T swtpm:path=<socket> -c srk.ctx -o srk.pub; Ok(())
generate_srk_readpublic ==
    /\ At("tpm setup", "readpublic")
    /\ \E ok \in (IF tpmAlive \ tpmTerm # {} THEN BOOLEAN ELSE {FALSE}) :
          IF ok
          THEN srkOk' = TRUE /\ Goto("kill_read") /\ UNCHANGED trail
          ELSE UNCHANGED srkOk /\ Finish(FALSE, "readpublic")
    /\ UNCHANGED <<cmd, osImage, locImage, obsImage, rest, osTpm,
                   killPid, killsSent, startedOk, statusOut, fromProvisioned, fromRunning>>

AfterKillPropagates(ok, at) == Finish(ok, at)

\* where main goes once kill_process returned: `?` in tpm kill and tpm setup,
\* `let _ =` in tpm destroy
AfterKill(ok, at) ==
    IF cmd = "tpm destroy"
    THEN Goto("remove_dir_all") /\ UNCHANGED trail
    ELSE Finish(ok, at)

\* kill_process: let pid = fs::read_to_string(pid_file)?
kill_process_read ==
    /\ cmd \in {"tpm kill", "tpm setup", "tpm destroy"} /\ pc = "kill_read"
    /\ IF tpmPidFile # <<>>
       THEN /\ killPid' = tpmPidFile
            /\ Goto("kill_cmd") /\ UNCHANGED trail
       ELSE /\ UNCHANGED killPid
            /\ AfterKill(FALSE, "kill_read")
    /\ UNCHANGED <<cmd, osImage, locImage, obsImage, rest, osTpm,
                   killsSent, startedOk, srkOk, statusOut, fromProvisioned, fromRunning>>

\* kill_process: kill <pid>; a nonzero exit is an error.  It removes no file.
kill_process_kill ==
    /\ cmd \in {"tpm kill", "tpm setup", "tpm destroy"} /\ pc = "kill_cmd"
    /\ killsSent' = killsSent + 1
    /\ \E ok \in (IF killPid[1] \in tpmAlive THEN BOOLEAN ELSE {FALSE}) :
          /\ tpmTerm' = IF ok THEN tpmTerm \cup {killPid[1]} ELSE tpmTerm
          /\ AfterKill(ok, "kill_cmd")
    /\ UNCHANGED <<cmd, osImage, locImage, obsImage, rest, tpmDir, tpmMarker, tpmPidFile, tpmAlive,
                   killPid, startedOk, srkOk, statusOut, fromProvisioned, fromRunning>>

RemoveDirAllForce(dirExists) == TRUE

\* fs::remove_dir_all can succeed only on a directory that is there
RemoveDirAllCanSucceed(dirExists) == dirExists

\* destroy_vtpm: fs::remove_dir_all(directory)?; a missing directory is an error,
\* and a removal that fails part-way may already have unlinked the state file
destroy_vtpm ==
    /\ At("tpm destroy", "remove_dir_all")
    /\ \/ /\ RemoveDirAllCanSucceed(tpmDir)
          /\ tpmDir' = FALSE /\ tpmMarker' = FALSE
          /\ Finish(TRUE, "")
       \/ /\ \E gone \in (IF tpmDir THEN BOOLEAN ELSE {FALSE}) :
                tpmMarker' = (tpmMarker /\ ~gone)
          /\ UNCHANGED tpmDir
          /\ Finish(FALSE, "remove_dir_all")
    /\ UNCHANGED <<cmd, osImage, locImage, obsImage, rest, tpmPidFile, tpmAlive, tpmTerm,
                   killPid, killsSent, startedOk, srkOk, statusOut, fromProvisioned, fromRunning>>

status_vtpm_marker_first(marker, pidFile) ==
    IF marker
    THEN [state |-> "vTPM setup but not running", pid |-> <<>>]
    ELSE IF pidFile # <<>>
         THEN [state |-> "vTPM is running", pid |-> pidFile]
         ELSE [state |-> "vTPM not setup and not running", pid |-> <<>>]

\* status_vtpm: read the pid file; failing that, look for <dir>/tpm2-00.permall
status_vtpm(marker, pidFile) ==
    IF pidFile # <<>>
    THEN [state |-> "vTPM is running", pid |-> pidFile]
    ELSE IF marker
         THEN [state |-> "vTPM setup but not running", pid |-> <<>>]
         ELSE [state |-> "vTPM not setup and not running", pid |-> <<>>]

\* main, "tpm status": print status_vtpm(&tpm_directory, &tpm_pid_file)
tpm_status_print ==
    /\ At("tpm status", "print")
    /\ statusOut' = status_vtpm(tpmMarker, tpmPidFile)
    /\ Succeed
    /\ UNCHANGED <<cmd, osImage, locImage, obsImage, rest, osTpm,
                   killPid, killsSent, startedOk, srkOk, fromProvisioned, fromRunning, trail>>

\* ---- the emulator, on its own timeline

\* a running swtpm writes its permanent state into the state directory
swtpm_persists_state ==
    /\ tpmAlive # {} /\ tpmDir /\ ~tpmMarker
    /\ tpmMarker' = TRUE
    /\ UNCHANGED <<ctl, osImage, locImage, obsImage, rest, tpmDir, tpmPidFile, tpmAlive, tpmTerm, locTpm>>

\* a swtpm process exits: one that was asked to terminate may remove the pid file it
\* wrote, one that crashes leaves it
swtpm_exits ==
    /\ \E p \in tpmAlive, cleans \in BOOLEAN :
          /\ tpmAlive' = tpmAlive \ {p}
          /\ tpmTerm' = tpmTerm \ {p}
          /\ tpmPidFile' = IF cleans /\ p \in tpmTerm /\ tpmPidFile = <<p>>
                           THEN <<>> ELSE tpmPidFile
    /\ UNCHANGED <<ctl, osImage, locImage, obsImage, rest, tpmDir, tpmMarker, locTpm>>

\* any host state the sidecar's files and process can be found in: never set up,
\* provisioned, running, or a pid file left by a process that is gone
InitTpm ==
    /\ CtlInit
    /\ ImageQuiet
    /\ imgMasked = FALSE
    /\ imgCfg = NoFile
    /\ tpmDir \in BOOLEAN
    /\ tpmMarker \in {m \in BOOLEAN : m => tpmDir}
    /\ tpmPidFile \in {<<>>} \cup {<<p>> : p \in Pids}
    /\ tpmAlive \in {{}} \cup {{p} : p \in {q \in Pids : tpmPidFile = <<q>>}}
    /\ tpmTerm = {}
    /\ TpmLocalsInit
    /\ DlQuiet
    /\ VmQuiet

NextTpm ==
    \/ main_tpm_start
    \/ main_tpm_setup
    \/ main_tpm_kill
    \/ main_tpm_destroy
    \/ main_tpm_status
    \/ tpm_deps
    \/ start_vtpm_mkdir
    \/ start_vtpm_swtpm
    \/ generate_srk_createprimary
    \/ generate_srk_readpublic
    \/ kill_process_read
    \/ kill_process_kill
    \/ destroy_vtpm
    \/ tpm_status_print
    \/ swtpm_persists_state
    \/ swtpm_exits

SpecTpm == InitTpm /\ [][NextTpm]_vars

\* ------------------------------------------------- image download

\* `while retries < 10` of azure_download_disk
MaxCopyRetries == 10

\* destFile is the contents of <suite>.img: "absent", "old" (an image from before),
\* "empty" (just created or truncated), "partial", "complete"

\* everything the download subcommand leaves alone
dlFrame == <<osImage, locImage, obsImage, osTpm, locTpm, osVm, locVm>>

\* main, "image download": check_dependencies(vec!["az"]), the --suite lookup, then
\* download_image(suite, &image_file, false)
main_image_download ==
    /\ Begin("image download", "deps")

image_download_deps ==
    /\ At("image download", "deps")
    /\ \E ok \in BOOLEAN :
          IF ok THEN Goto("args") ELSE Fail("deps")
    /\ UNCHANGED <<cmd, osDl, locDl, dlFrame>>

\* get_one::<String>("SUITE").expect("required"): the argument is declared with
\* arg!(--suite <SUITE>); whether clap files it under the id looked up here is
\* clap's business, so the lookup either yields the suite or panics
image_download_args ==
    /\ At("image download", "args")
    /\ \E found \in BOOLEAN :
          IF found THEN Goto("exists") ELSE Fail("args")
    /\ UNCHANGED <<cmd, osDl, locDl, dlFrame>>

SkipDownloadIfForced(f, exists) == f /\ exists

\* download_image: `if !force && Path::new(file).exists() { return Ok(()) }`
SkipDownload(f, exists) == ~f /\ exists

download_image_exists ==
    /\ At("image download", "exists")
    /\ IF SkipDownload(force, destFile # "absent")
       THEN Succeed
       ELSE Goto("create_group")
    /\ UNCHANGED <<cmd, osDl, locDl, dlFrame>>

\* azure_create_group: az group create; creating a group that is there succeeds
azure_create_group ==
    /\ At("image download", "create_group")
    /\ transport' = transport + 1
    /\ \E ok \in BOOLEAN :
          IF ok
          THEN rgExists' = TRUE /\ Goto("create_disk")
          ELSE UNCHANGED rgExists /\ Fail("create_group")
    /\ UNCHANGED <<cmd, destFile, force, dlRetries, copies, copyFails, destBefore, dlRes,
                   dlFrame>>

\* azure_create_disk: az disk create in the resource group
azure_create_disk ==
    /\ At("image download", "create_disk")
    /\ transport' = transport + 1
    /\ \E ok \in (IF rgExists THEN BOOLEAN ELSE {FALSE}) :
          IF ok THEN Goto("export_disk") ELSE Fail("create_disk")
    /\ UNCHANGED <<cmd, osDl, force, dlRetries, copies, copyFails, destBefore, dlRes,
                   dlFrame>>

\* azure_export_disk: az disk grant-access, the SAS url from its stdout
azure_export_disk ==
    /\ At("image download", "export_disk")
    /\ transport' = transport + 1
    /\ \E ok \in (IF rgExists THEN BOOLEAN ELSE {FALSE}) :
          IF ok THEN Goto("file_create") ELSE Fail("export_disk")
    /\ UNCHANGED <<cmd, osDl, force, dlRetries, copies, copyFails, destBefore, dlRes,
                   dlFrame>>

\* azure_download_disk: fs::File::create(filename)? creates or truncates the file
azure_download_disk_create ==
    /\ At("image download", "file_create")
    /\ transport' = transport + 1
    /\ \E ok \in BOOLEAN :
          IF ok
          THEN destFile' = "empty" /\ dlRes' = dlRes /\ Goto("http_get")
          ELSE destFile' = destFile /\ dlRes' = "err" /\ Fail("file_create")
    /\ UNCHANGED <<cmd, rgExists, force, dlRetries, copies, copyFails, destBefore,
                   dlFrame>>

\* azure_download_disk: ureq::get(url).call()?.into_reader()
azure_download_disk_get ==
    /\ At("image download", "http_get")
    /\ transport' = transport + 1
    /\ \E ok \in BOOLEAN :
          IF ok
          THEN dlRes' = dlRes /\ Goto("copy")
          ELSE dlRes' = "err" /\ Fail("http_get")
    /\ UNCHANGED <<cmd, osDl, force, dlRetries, copies, copyFails, destBefore, dlFrame>>

CopyLoopContinueOneMore(r) == r <= MaxCopyRetries

\* the loop condition of azure_download_disk
CopyLoopContinue(r) == r < MaxCopyRetries

\* azure_download_disk: one evaluation of `while retries < 10` and, inside, one
\* io::copy. Ok(_) breaks; the reader may have ended early (the peer closed, or the
\* 4 GiB budget of SizeLimitedReader ran out), so the file need not be complete.
\* Err is printed, retries += 1; the bytes copied before the error stay in the file.
\* Past the loop the function returns Ok(()) and download_image goes on to
\* azure_delete_group.
azure_download_disk_copy ==
    /\ At("image download", "copy")
    /\ IF CopyLoopContinue(dlRetries)
       THEN /\ copies' = copies + 1
            /\ \E ok \in BOOLEAN :
                  IF ok
                  THEN /\ \E d \in {"partial", "complete"} : destFile' = d
                       /\ dlRes' = "ok"
                       /\ Goto("delete_group")
                       /\ UNCHANGED <<dlRetries, copyFails>>
                  ELSE /\ \E d \in {destFile, "partial"} : destFile' = d
                       /\ copyFails' = copyFails + 1
                       /\ dlRetries' = dlRetries + 1
                       /\ Goto("copy")
                       /\ UNCHANGED dlRes
       ELSE /\ dlRes' = "ok"
            /\ Goto("delete_group")
            /\ UNCHANGED <<destFile, dlRetries, copies, copyFails>>
    /\ UNCHANGED <<cmd, rgExists, force, transport, destBefore, dlFrame>>

\* azure_delete_group: az group delete --no-wait --yes, then Ok(())
azure_delete_group ==
    /\ At("image download", "delete_group")
    /\ transport' = transport + 1
    /\ \E ok \in (IF rgExists THEN BOOLEAN ELSE {FALSE}) :
          IF ok
          THEN rgExists' = FALSE /\ Succeed
          ELSE UNCHANGED rgExists /\ Fail("delete_group")
    /\ UNCHANGED <<cmd, destFile, force, dlRetries, copies, copyFails, destBefore, dlRes,
                   dlFrame>>

\* no <suite>.img or one from an earlier run; the resource group may have been left
\* behind by an earlier failed run
InitDownload ==
    /\ CtlInit
    /\ ImageQuiet /\ imgMasked = FALSE /\ imgCfg = NoFile
    /\ TpmQuiet
    /\ VmQuiet
    /\ DlLocalsInit
    /\ destFile \in {"absent", "old"}
    /\ rgExists \in BOOLEAN

NextDownload ==
    \/ main_image_download
    \/ image_download_deps
    \/ image_download_args
    \/ download_image_exists
    \/ azure_create_group
    \/ azure_create_disk
    \/ azure_export_disk
    \/ azure_download_disk_create
    \/ azure_download_disk_get
    \/ azure_download_disk_copy
    \/ azure_delete_group

SpecDownload == InitDownload /\ [][NextDownload]_vars

\* ------------------------------------------------- vm start, vm kill

\* the two files of copy_ovmf_vars
TemplatePath == "/usr/share/OVMF/OVMF_VARS_4M.ms.fd"
CopyPath == "/tmp/OVMF_VARS.ms.fd"

\* everything the vm subcommands leave alone
vmFrame == <<osImage, locImage, obsImage, osTpm, locTpm, osDl, locDl>>

\* main, "vm start": check_dependencies, the IMAGE lookup, create_cloudinit_drive,
\* start_vm
main_vm_start ==
    /\ Begin("vm start", "deps")

vm_start_deps ==
    /\ At("vm start", "deps")
    /\ \E ok \in BOOLEAN :
          IF ok THEN Goto("args") ELSE Fail("deps")
    /\ UNCHANGED <<cmd, osVm, locVm, vmFrame>>

\* get_one::<String>("image").expect("required"): the argument is declared with
\* arg!([IMAGE]) and is optional; the lookup yields the path or panics
vm_start_args ==
    /\ At("vm start", "args")
    /\ \E found \in BOOLEAN :
          IF found THEN Goto("user_data") ELSE Fail("args")
    /\ UNCHANGED <<cmd, osVm, locVm, vmFrame>>

\* create_cloudinit_drive: File::create(<tmp>/user_data.yaml) and the three writeln!
create_cloudinit_drive_write ==
    /\ At("vm start", "user_data")
    /\ \E ok \in BOOLEAN :
          IF ok THEN Goto("localds") ELSE Fail("cloudinit")
    /\ UNCHANGED <<cmd, osVm, locVm, vmFrame>>

\* create_cloudinit_drive: cloud-localds seed.img <user_data>
create_cloudinit_drive_localds ==
    /\ At("vm start", "localds")
    /\ \E ok \in BOOLEAN :
          IF ok
          THEN seedImg' = TRUE /\ Goto("copy_ovmf")
          ELSE UNCHANGED seedImg /\ Fail("cloudinit")
    /\ UNCHANGED <<cmd, vmPidFile, vmAlive, vmTerm, diskImage, ovmfTemplate, ovmfScratch,
                   locVm, vmFrame>>

CopyOvmfVarsReversed(template, scratch) == [template |-> scratch, scratch |-> scratch]

\* fs::copy(TemplatePath, CopyPath): the two files once the copy has succeeded
CopyOvmfVars(template, scratch) == [template |-> template, scratch |-> template]

\* start_vm: copy_ovmf_vars(), "failed to copy OVMF" on Err; a missing template
\* cannot be copied
copy_ovmf_vars ==
    /\ At("vm start", "copy_ovmf")
    /\ \E ok \in (IF ovmfTemplate # "absent" THEN BOOLEAN ELSE {FALSE}) :
          IF ok
          THEN /\ ovmfTemplate' = CopyOvmfVars(ovmfTemplate, ovmfScratch).template
               /\ ovmfScratch' = CopyOvmfVars(ovmfTemplate, ovmfScratch).scratch
               /\ Goto("qemu")
          ELSE /\ UNCHANGED <<ovmfTemplate, ovmfScratch>>
               /\ Fail("copy_ovmf")
    /\ UNCHANGED <<cmd, vmPidFile, vmAlive, vmTerm, diskImage, seedImg, locVm, vmFrame>>

StartVmIgnoresStatus(exit0) == TRUE

\* start_vm: Err when qemu could not be run or exited nonzero, Ok(()) otherwise
StartVmOk(exit0) == exit0

\* start_vm: qemu-system-x86_64 -daemonize -pidfile /tmp/qemu_pid -snapshot ...
\* -drive file=<image> -drive file=seed.img, pflash unit 1 = the path copy_ovmf_vars
\* returned.  qemu exits 0 only once the daemon is up: it needs both drive files,
\* and the forwarded port 2222 and the pid-file lock are free only when no other
\* VM is alive.  A qemu that fails has written no pid file or has unlinked the one
\* it wrote; it leaves the pid file of a VM that holds the lock alone.
start_vm_qemu ==
    /\ At("vm start", "qemu")
    /\ launches' = launches + 1
    /\ pflashVars' = CopyPath
    /\ handedVars' = ovmfScratch
    /\ \E exit0 \in (IF diskImage /\ seedImg /\ vmAlive = {} THEN BOOLEAN ELSE {FALSE}) :
          /\ IF exit0
             THEN \E p \in Pids \ vmAlive :
                     /\ vmAlive' = vmAlive \cup {p}
                     /\ vmPidFile' = <<p>>
                     /\ pidLeft' = TRUE
             ELSE /\ vmAlive' = vmAlive
                  /\ \E f \in (IF vmAlive = {} THEN {vmPidFile, <<>>} ELSE {vmPidFile}) :
                        vmPidFile' = f
                  /\ pidLeft' = FALSE
          /\ IF StartVmOk(exit0) THEN Succeed ELSE Fail("qemu")
    /\ UNCHANGED <<cmd, vmTerm, diskImage, seedImg, ovmfTemplate, ovmfScratch,
                   vmKillPid, vmKillsSent, scratchBefore, vmFrame>>

\* main, "vm kill": kill_vm()
main_vm_kill ==
    /\ Begin("vm kill", "kill_read")

\* kill_vm: kill_process("/tmp/qemu_pid"): let pid = fs::read_to_string(pid_file)?
kill_vm_read ==
    /\ At("vm kill", "kill_read")
    /\ IF vmPidFile # <<>>
       THEN vmKillPid' = vmPidFile /\ Goto("kill_cmd")
       ELSE UNCHANGED vmKillPid /\ Fail("kill_read")
    /\ UNCHANGED <<cmd, osVm, vmKillsSent, launches, pflashVars, handedVars, pidLeft,
                   scratchBefore, vmFrame>>

KillVmNextNoRemove(killOk) == IF killOk THEN "ok" ELSE "err"

\* kill_vm: `kill_process(pid_file)?; fs::remove_file(pid_file)?;`
KillVmNext(killOk) == IF killOk THEN "remove_file" ELSE "err"

\* kill_process: kill <pid>; a nonzero exit is an error
kill_vm_kill ==
    /\ At("vm kill", "kill_cmd")
    /\ vmKillsSent' = vmKillsSent + 1
    /\ \E ok \in (IF vmKillPid[1] \in vmAlive THEN BOOLEAN ELSE {FALSE}) :
          /\ vmTerm' = IF ok THEN vmTerm \cup {vmKillPid[1]} ELSE vmTerm
          /\ CASE KillVmNext(ok) = "remove_file" -> Goto("remove_file")
               [] KillVmNext(ok) = "ok" -> Succeed
               [] OTHER -> Fail("kill_cmd")
    /\ UNCHANGED <<cmd, vmPidFile, vmAlive, diskImage, seedImg, ovmfTemplate, ovmfScratch,
                   vmKillPid, launches, pflashVars, handedVars, pidLeft, scratchBefore,
                   vmFrame>>

\* kill_vm: fs::remove_file(pid_file)?, then Ok(()); a file that is gone cannot be
\* removed
kill_vm_remove ==
    /\ At("vm kill", "remove_file")
    /\ \E ok \in (IF vmPidFile # <<>> THEN BOOLEAN ELSE {FALSE}) :
          IF ok
          THEN vmPidFile' = <<>> /\ Succeed
          ELSE UNCHANGED vmPidFile /\ Fail("remove_file")
    /\ UNCHANGED <<cmd, vmAlive, vmTerm, diskImage, seedImg, ovmfTemplate, ovmfScratch,
                   locVm, vmFrame>>

\* a qemu process ends (terminated, or the guest powered off); on its way out it
\* may unlink the pid file it wrote.  Under -snapshot it has kept the guest's
\* writes, the firmware variables included, in temporary files.
qemu_exits ==
    /\ \E p \in vmAlive, cleans \in BOOLEAN :
          /\ vmAlive' = vmAlive \ {p}
          /\ vmTerm' = vmTerm \ {p}
          /\ vmPidFile' = IF cleans /\ vmPidFile = <<p>> THEN <<>> ELSE vmPidFile
    /\ UNCHANGED <<ctl, diskImage, seedImg, ovmfTemplate, ovmfScratch, locVm, vmFrame>>

\* any host state the vm subcommands can find: the image named on the command line
\* there or not, the firmware package installed or not, a scratch copy absent, fresh,
\* or written to since it was made, and no VM, a running VM, or a pid file whose
\* process is gone
InitVm ==
    /\ CtlInit
    /\ ImageQuiet /\ imgMasked = FALSE /\ imgCfg = NoFile
    /\ TpmQuiet
    /\ DlQuiet
    /\ VmLocalsInit
    /\ diskImage \in BOOLEAN
    /\ seedImg = FALSE
    /\ ovmfTemplate \in {"template", "absent"}
    /\ ovmfScratch \in {"absent", "template", "modified"}
    /\ vmTerm = {}
    /\ \/ vmPidFile = <<>> /\ vmAlive = {}
       \/ \E p \in Pids : vmPidFile = <<p>> /\ vmAlive \in {{}, {p}}

NextVm ==
    \/ main_vm_start
    \/ vm_start_deps
    \/ vm_start_args
    \/ create_cloudinit_drive_write
    \/ create_cloudinit_drive_localds
    \/ copy_ovmf_vars
    \/ start_vm_qemu
    \/ main_vm_kill
    \/ kill_vm_read
    \/ kill_vm_kill
    \/ kill_vm_remove
    \/ qemu_exits

SpecVm == InitVm /\ [][NextVm]_vars

\* ------------------------------------------------------------ claims

CustomizeReturned == cmd = "image customize" /\ pc = "done"

\* C1: when customize_image returns the error of a failed customization stage (the
\* chroot mask command or the write of 90_dpkg.cfg), nothing is mounted at the
\* mountpoint, the mountpoint directory is gone and the NBD device is detached.
C1_CleanupBeforeCustomizeError ==
    (CustomizeReturned /\ result = "err" /\ errAt \in {"chroot", "cfg_create", "cfg_write"})
        => (~mounted /\ ~mountDir /\ ~nbd)

\* C2: a run of customize_image whose qemu-nbd --connect succeeded has issued exactly
\* one qemu-nbd --disconnect when it returns, on every exit path; a run whose connect
\* did not succeed has issued none.
C2_OneDisconnectPerConnect ==
    CustomizeReturned =>
        /\ (connectsOk = 1 => disconnects = 1)
        /\ (connectsOk = 0 => disconnects = 0)

\* C3: when customize_image returns Ok, 90_dpkg.cfg in the image root holds exactly
\* "datasource_list: [ NoCloud, Azure ]" and a newline, walinuxagent was masked in the
\* image root, nothing is mounted, the mountpoint directory is removed and the NBD
\* device is disconnected.
C3_SuccessFinalState ==
    (CustomizeReturned /\ result = "ok") =>
        /\ imgCfg = [exists |-> TRUE,
                     data |-> <<"datasource_list: [ NoCloud, Azure ]", "\n">>]
        /\ imgMasked
        /\ ~mounted /\ ~mountDir /\ ~nbd

\* a successful customization of an image that shipped its own 90_dpkg.cfg
C3_Witness ==
    /\ CustomizeReturned /\ result = "ok"
    /\ connectsOk = 1 /\ disconnects = 1 /\ sleeps = 2
    /\ imgCfg.exists /\ imgMasked

InAttachLoop == cmd = "image customize" /\ pc \in {"poll", "sleep", "final"}

\* the safety half of C4
PollBounded ==
    /\ sleeps <= 20
    /\ retries = sleeps
    /\ (cmd = "image customize" /\ pc = "sleep") => sleeps < 20
    /\ (cmd = "image customize" /\ attachRes = "ok") => lastExists
    /\ (cmd = "image customize" /\ pc \in {"mkdir", "mount", "chroot"}) => attachRes = "ok"
    /\ (CustomizeReturned /\ connectsOk = 1 /\ ~lastExists)
          => (attachRes = "err" /\ result = "err" /\ errAt = "nbd device not created")

\* C4: the readiness loop of attach_nbd_device never sleeps more than 20 times and
\* is never inside its body with the budget used up; whatever the partition node
\* does, attach_nbd_device returns; it returns Ok only when its check after the loop
\* saw the partition, and when the budget is exhausted and that check does not see
\* it, it returns the error.
C4_PollTerminates ==
    /\ []PollBounded
    /\ (InAttachLoop ~> (attachRes \in {"ok", "err"}))

\* the partition never appeared: 20 sleeps, then "nbd device not created"
C4_Witness ==
    /\ CustomizeReturned /\ result = "err" /\ errAt = "nbd device not created"
    /\ sleeps = 20 /\ appearK = -1 /\ ~lastExists

\* C5: if the partition first exists after k polling iterations, 0 <= k < 20, and
\* stays, attach_nbd_device returns Ok having slept exactly k times.
C5_ReturnsAtIterationK ==
    (cmd = "image customize" /\ appearK \in 0..19 /\ ~vanished) =>
        /\ sleeps <= appearK
        /\ (pc \notin {"poll", "sleep"}) => (attachRes = "ok" => sleeps = appearK)
        /\ (pc \notin {"poll", "sleep", "final"}) => (attachRes = "ok" /\ sleeps = appearK)

\* the partition appeared during the seventh wait and attach returned after 7 sleeps
C5_Witness ==
    /\ cmd = "image customize" /\ pc = "mkdir"
    /\ appearK = 7 /\ ~vanished /\ sleeps = 7 /\ attachRes = "ok"

StatusStep == cmd = "tpm status" /\ pc = "print" /\ pc' = "done"

\* C6: the step that computes `tpm status` changes no file and no process, and what
\* it prints is decided by (pid file readable, tpm2-00.permall present) alone:
\* (absent, absent) -> not set up; (absent, present) -> set up but not running;
\* (present, either) -> running, with the pid file's contents.
C6_StatusTable ==
    [][StatusStep =>
        /\ UNCHANGED <<osTpm, osImage>>
        /\ (tpmPidFile = <<>> /\ ~tpmMarker)
              => statusOut' = [state |-> "vTPM not setup and not running", pid |-> <<>>]
        /\ (tpmPidFile = <<>> /\ tpmMarker)
              => statusOut' = [state |-> "vTPM setup but not running", pid |-> <<>>]
        /\ (tpmPidFile # <<>>)
              => statusOut' = [state |-> "vTPM is running", pid |-> tpmPidFile]
      ]_vars

\* status printed "running" although the marker file is there too
C6_Witness ==
    /\ cmd = "tpm status" /\ pc = "done"
    /\ statusOut.state = "vTPM is running"
    /\ tpmMarker /\ tpmPidFile = statusOut.pid

\* C7: from a provisioned, stopped sidecar, a `tpm status` after a successful
\* `tpm start` prints running with the pid file's contents; a `tpm status` after a
\* subsequent successful `tpm kill` finds no pid file and prints set up but not running.
C7_StartKillStatus ==
    [][StatusStep =>
        /\ (trail = "start_ok")
              => (tpmPidFile # <<>>
                  /\ statusOut' = [state |-> "vTPM is running", pid |-> tpmPidFile])
        /\ (trail = "start_kill_ok")
              => (tpmPidFile = <<>>
                  /\ statusOut'.state = "vTPM setup but not running")
      ]_vars

\* C8: a `tpm status` right after a successful `tpm setup` prints set up but not
\* running: the state file is there, no sidecar is left running, no pid file remains.
C8_SetupThenStatus ==
    [][(StatusStep /\ trail = "setup_ok") =>
        /\ statusOut'.state = "vTPM setup but not running"
        /\ tpmMarker
        /\ tpmPidFile = <<>>
        /\ tpmAlive \ tpmTerm = {}
      ]_vars

SetupReturned == cmd = "tpm setup" /\ pc = "done"

\* C9: when `tpm setup` returns after start_vtpm succeeded and tpm2_createprimary or
\* tpm2_readpublic failed, a kill was sent to the sidecar on the way out.
C9_StopAfterFailedKeygen ==
    (SetupReturned /\ startedOk /\ errAt \in {"createprimary", "readpublic"})
        => killsSent >= 1

\* C10: when start_vtpm and both key-generation commands succeeded, `tpm setup`
\* returns success even if the final stop of the sidecar fails.
C10_StopFailureNotFatal ==
    (SetupReturned /\ startedOk /\ srkOk) => result = "ok"

\* C11: `tpm start` never returns success in a state where the sidecar pid file
\* does not exist.
C11_StartNeedsPidFile ==
    [][(cmd = "tpm start" /\ pc # "done" /\ pc' = "done" /\ result' = "ok")
          => tpmPidFile' # <<>>
      ]_vars

DestroyStep == cmd = "tpm destroy" /\ pc = "remove_dir_all" /\ pc' = "done"

\* C18: a successful destroy_vtpm leaves neither the state directory nor the state
\* file; a `tpm status` after a successful `tpm destroy` of a provisioned, stopped
\* sidecar prints not set up; destroy_vtpm on a missing state directory fails and
\* changes nothing.
C18_DestroyProvisioned ==
    [][/\ (DestroyStep /\ result' = "ok") => (tpmDir /\ ~tpmDir' /\ ~tpmMarker')
       /\ (DestroyStep /\ ~tpmDir) => (result' = "err" /\ UNCHANGED osTpm)
       /\ (StatusStep /\ trail = "destroy_ok")
             => statusOut' = [state |-> "vTPM not setup and not running", pid |-> <<>>]
      ]_vars

\* status after destroying a provisioned, stopped sidecar
C18_Witness ==
    /\ cmd = "tpm status" /\ pc = "done" /\ trail = "destroy_ok"
    /\ statusOut.state = "vTPM not setup and not running"
    /\ ~tpmDir /\ ~tpmMarker

\* what C19 says of the order and of the pid file during `tpm destroy`: kill_process
\* runs first, destroy_vtpm follows whatever kill_process returned, and no step of
\* the command changes the pid file
DestroyOrder ==
    /\ (cmd = "tpm destroy" /\ pc = "kill_read" /\ pc' # pc)
          => pc' \in {"kill_cmd", "remove_dir_all"}
    /\ (cmd = "tpm destroy" /\ pc = "kill_cmd" /\ pc' # pc)
          => (pc' = "remove_dir_all" /\ killsSent' = 1)
    /\ (cmd = "tpm destroy" /\ pc' = "remove_dir_all" /\ pc' # pc)
          => pc \in {"kill_read", "kill_cmd"}
    /\ (cmd' = "tpm destroy" /\ pc' # pc) => tpmPidFile' = tpmPidFile

\* C19 as stated: kill_process first, removal whatever its outcome, the pid file
\* untouched by destroy, and so a `tpm status` after destroying a running sidecar
\* finds the pid file and prints running.
C19_DestroyKeepsRunning ==
    [][/\ DestroyOrder
       /\ (StatusStep /\ trail = "destroy_running")
             => (tpmPidFile # <<>> /\ statusOut'.state = "vTPM is running")
      ]_vars

\* C19 as amended: as above, except that the terminated emulator may remove its own
\* pid file when it exits: the pid file disappears in no other step, and a `tpm status`
\* after destroying a running sidecar prints running exactly when it is still there,
\* and not set up otherwise.
C19_DestroyKeepsPidFile ==
    [][/\ DestroyOrder
       /\ (tpmPidFile # <<>> /\ tpmPidFile' = <<>>)
             => (/\ pc' = pc
                 /\ \E p \in tpmTerm : tpmPidFile = <<p>> /\ p \notin tpmAlive')
       /\ (StatusStep /\ trail = "destroy_running")
             => statusOut' = IF tpmPidFile # <<>>
                             THEN [state |-> "vTPM is running", pid |-> tpmPidFile]
                             ELSE [state |-> "vTPM not setup and not running", pid |-> <<>>]
      ]_vars

\* status after destroying a running sidecar whose pid file is still there
C19_Witness ==
    /\ cmd = "tpm status" /\ pc = "done" /\ trail = "destroy_running"
    /\ statusOut.state = "vTPM is running" /\ tpmPidFile # <<>>
    /\ ~tpmDir

\* C16: the mountpoint is created and mount is invoked only after the readiness
\* check of attach_nbd_device has seen the partition; when modprobe fails, the
\* connect fails or the partition never appears, customize_image returns an error
\* having neither created the mountpoint nor invoked mount.
C16_MountOnlyAfterPartitionSeen ==
    /\ (mkdirCalls > 0 \/ mountCalls > 0) => (attachRes = "ok" /\ lastExists)
    /\ (cmd = "image customize" /\ pc \in {"mkdir", "mount"}) => (attachRes = "ok" /\ lastExists)
    /\ (CustomizeReturned /\ errAt \in {"modprobe", "connect", "nbd device not created"})
          => (result = "err" /\ mkdirCalls = 0 /\ mountCalls = 0)
    /\ (CustomizeReturned /\ attachRes = "err") => errAt \in {"connect", "nbd device not created"}

\* the partition never appeared in all the polling iterations
C16_Witness ==
    /\ CustomizeReturned /\ errAt = "nbd device not created"
    /\ retries = MaxRetries /\ ~lastExists /\ connectsOk = 1
    /\ mkdirCalls = 0 /\ mountCalls = 0

\* C17: the mountpoint directory exists when mount is invoked; it is removed only by
\* the remove_dir that follows a successful umount, never while something is mounted
\* on it; the disconnect is issued only after the unmount and the removal of the
\* mountpoint.
C17_MountpointOrder ==
    [][/\ (mountCalls' > mountCalls) => (mountDir /\ mkdirCalls = 1)
       /\ (mountDir /\ ~mountDir') => (pc = "rmdir" /\ ~mounted /\ mountCalls = 1)
       /\ (pc' = "rmdir" /\ pc # pc') => (pc = "umount" /\ mounted /\ ~mounted')
       /\ (disconnects' > disconnects) => (pc = "disconnect" /\ ~mounted /\ ~mountDir)
       /\ (pc' = "disconnect" /\ pc # pc') => (pc = "rmdir" /\ ~mountDir')
      ]_vars

\* unmounted, mountpoint removed, disconnect about to be issued
C17_Witness ==
    /\ cmd = "image customize" /\ pc = "disconnect"
    /\ mountCalls = 1 /\ ~mounted /\ ~mountDir /\ nbd /\ disconnects = 0

DownloadReturned == cmd = "image download" /\ pc = "done"

\* C12: with force = false and the destination already there, download_image returns
\* success without any transport step (no group creation, disk creation, export,
\* HTTP download or group deletion) and leaves the destination as it was.
C12_ExistingDestinationSkipsTransport ==
    (cmd = "image download" /\ ~force /\ destBefore # "absent")
       => /\ transport = 0 /\ copies = 0
          /\ destFile = destBefore
          /\ pc \in {"deps", "args", "exists", "done"}
          /\ (pc = "done" /\ errAt \notin {"deps", "args"}) => result = "ok"

\* download_image returned at its first test, the old image untouched
C12_Witness ==
    /\ DownloadReturned /\ result = "ok" /\ ~force
    /\ destBefore = "old" /\ destFile = "old" /\ transport = 0

\* C20: azure_download_disk makes at most 10 copy attempts, stops at the first one
\* that succeeds, and returns success whatever the attempts gave; when all 10 fail
\* download_image still goes on to delete the resource group and reports success
\* although the destination is incomplete.
C20_CopyRetriesSwallowed ==
    [][/\ copies' <= MaxCopyRetries
       /\ (copies' > copies /\ copyFails' = copyFails)
             => (pc' = "delete_group" /\ dlRes' = "ok")
       /\ pc' = "copy" => copyFails' = copies'
       /\ (pc = "copy" /\ pc' # pc) => (pc' = "delete_group" /\ dlRes' = "ok")
       /\ (pc = "copy" /\ copyFails = MaxCopyRetries)
             => (pc' = "delete_group" /\ destFile' \in {"empty", "partial"})
       /\ (cmd' = "image download" /\ pc' = "done" /\ copyFails' = MaxCopyRetries)
             => /\ destFile' \in {"empty", "partial"}
                /\ result' = "ok" \/ errAt' = "delete_group"
      ]_vars

\* all 10 copies failed and the command exited 0 with an incomplete image
C20_Witness ==
    /\ DownloadReturned /\ result = "ok"
    /\ copies = MaxCopyRetries /\ copyFails = MaxCopyRetries
    /\ destFile \in {"empty", "partial"} /\ ~rgExists

\* C13: over any number of VM launches the template file is never written; every
\* start_vm makes a fresh copy of it at the scratch path before it runs the
\* hypervisor, gives the hypervisor that copy and no other file as the writable
\* vars pflash, and the copy has the template's contents at launch even when the
\* scratch file had been modified before.
C13_TemplateNeverWritten ==
    [][/\ ovmfTemplate' = ovmfTemplate
       /\ (pc' = "qemu" /\ pc # pc')
             => (cmd = "vm start" /\ pc = "copy_ovmf" /\ ovmfScratch' = ovmfTemplate)
       /\ (launches' > launches)
             => /\ pc = "qemu"
                /\ pflashVars' = CopyPath /\ pflashVars' # TemplatePath
                /\ handedVars' = ovmfTemplate /\ handedVars' # "absent"
      ]_vars

\* a VM launched on a fresh copy where a modified scratch file had been
C13_Witness ==
    /\ cmd = "vm start" /\ pc = "done" /\ result = "ok" /\ launches = 1
    /\ scratchBefore = "modified" /\ handedVars = "template" /\ ovmfTemplate = "template"

\* C14: `vm start` on a disk image that does not exist fails with an error and
\* leaves behind no pid file of its own.
C14_MissingImageFails ==
    [][(cmd' = "vm start" /\ ~diskImage')
          => /\ result' # "ok"
             /\ pc' = "done" => result' = "err"
             /\ ~pidLeft'
             /\ pc' # pc => vmPidFile' \in {vmPidFile, <<>>}
      ]_vars

\* qemu was run on the missing image and start_vm returned its error
C14_Witness ==
    /\ cmd = "vm start" /\ pc = "done" /\ ~diskImage
    /\ launches = 1 /\ result = "err" /\ errAt = "qemu" /\ ~pidLeft

VmKillStep == cmd = "vm kill" /\ pc # "done" /\ pc' # pc

\* C15: kill_vm reads the pid file, sends the termination request, then removes the
\* pid file; when it returns Ok the pid file is absent; when the pid file is missing
\* or the kill fails it returns an error, sends nothing more and leaves the pid file
\* in place; it never deletes the disk image, the seed image or the firmware files.
C15_KillVm ==
    [][VmKillStep
          => /\ pc = "kill_read" => pc' \in {"kill_cmd", "done"}
             /\ pc = "kill_cmd" => (vmKillsSent' = 1 /\ pc' \in {"remove_file", "done"})
             /\ pc' = "remove_file" => (vmKillPid[1] \in vmTerm' /\ vmPidFile' = vmPidFile)
             /\ (pc' = "done" /\ result' = "ok") => (pc = "remove_file" /\ vmPidFile' = <<>>)
             /\ (pc = "kill_read" /\ vmPidFile = <<>>)
                   => (result' = "err" /\ vmKillsSent' = 0 /\ vmPidFile' = vmPidFile)
             /\ (pc = "kill_cmd" /\ vmTerm' = vmTerm /\ vmKillPid[1] \notin vmTerm)
                   => (pc' = "done" /\ result' = "err" /\ vmPidFile' = vmPidFile)
             /\ UNCHANGED <<diskImage, seedImg, ovmfTemplate, ovmfScratch>>
      ]_vars

\* a running VM killed and its pid file removed by kill_vm
C15_Witness ==
    /\ cmd = "vm kill" /\ pc = "done" /\ result = "ok"
    /\ vmKillsSent = 1 /\ vmPidFile = <<>> /\ vmKillPid # <<>>

====
